---- MODULE Spec2Model ----
(* A model of botoform's EnvironmentBuilder (src/botoform/builders.py):       *)
(* the cloud state it reads and changes through EnrichedVPC, and apply_all    *)
(* with each of its steps, one action per loop iteration of a step.           *)
(* A subnet's declared name "<prefix>-N" is represented by its number N.      *)
EXTENDS Integers, Sequences, FiniteSets, TLC

VARIABLES
  config,                 \* self.config, the declarative configuration
  vpc,                    \* the VPC named vpc_name: [exists, dns, igw]
  evpc_route_tables,      \* Name tags of the tagged route tables
  evpc_subnets,           \* the subnets: [name, base, len, az]
  evpc_associations,      \* <<route table, subnet>> associations
  evpc_endpoints,         \* route tables that vpc endpoints were created in
  evpc_security_groups,   \* the security groups: [GroupName, Name, id]
  evpc_ingress,           \* authorized ingress: [group, IpPermissions]
  evpc_instances,         \* subnet name -> role -> number of instances
  evpc_locked,            \* termination protection enabled
  evpc_running,           \* instances, in order of creation, that reached running
  pc,                     \* where apply_all is
  idx,                    \* the loop index of the current step (0: before the loop)
  pools,                  \* subnets(): the local dict `subnets`, size -> cidrs
  role_state,             \* instance_role(): its locals while it loops
  runs,                   \* number of apply_all calls made
  created,                \* creation calls issued by the current run
  launches,               \* create_instances calls of the current run
  error,                  \* the exception that ended the current run
  raised,                 \* apply_all raised to its caller
  log,                    \* what the current run logged
  before                  \* what the current run found when it started

vars == <<config, vpc, evpc_route_tables, evpc_subnets, evpc_associations,
          evpc_endpoints, evpc_security_groups, evpc_ingress, evpc_instances,
          evpc_locked, evpc_running, pc, idx, pools, role_state, runs, created, launches,
          error, raised, log, before>>

cloud == <<vpc, evpc_route_tables, evpc_subnets, evpc_associations,
           evpc_endpoints, evpc_security_groups, evpc_ingress, evpc_instances>>

-----------------------------------------------------------------------------
(* Bounds of the model *)

MaxSubnets == 2        \* declared subnets
MaxCount == 4          \* largest declared count of a role
MaxCurrent == 2        \* instances a subnet holds before the fleet step
MaxRuns == 2           \* calls of apply_all in one behaviour
ParentBits == 4        \* the parent block holds 2^ParentBits addresses
NumZones == 3          \* availability zones of the region

None == "None"

-----------------------------------------------------------------------------
(* Helpers over sequences *)

RECURSIVE SumSeq(_)
SumSeq(s) == IF s = <<>> THEN 0 ELSE Head(s) + SumSeq(Tail(s))

Range(s) == {s[i] : i \in 1..Len(s)}

RECURSIVE Pow2(_)
Pow2(n) == IF n = 0 THEN 1 ELSE 2 * Pow2(n - 1)

\* Mutant: a sort that is not stable, equal keys come out in reverse
RECURSIVE InsertByKey_Unstable(_, _, _)
InsertByKey_Unstable(x, s, key) ==
  IF s = <<>> THEN <<x>>
  ELSE IF key[x] <= key[Head(s)] THEN <<x>> \o s
  ELSE <<Head(s)>> \o InsertByKey_Unstable(x, Tail(s), key)

\* Python's sorted(): ascending and stable. key is a function on the elements.
RECURSIVE InsertByKey(_, _, _)
InsertByKey(x, s, key) ==
  IF s = <<>> THEN <<x>>
  ELSE IF key[x] < key[Head(s)] THEN <<x>> \o s
  ELSE <<Head(s)>> \o InsertByKey(x, Tail(s), key)

RECURSIVE SortedByKey(_, _)
SortedByKey(s, key) ==
  IF s = <<>> THEN <<>>
  ELSE InsertByKey(s[Len(s)], SortedByKey(SubSeq(s, 1, Len(s) - 1), key), key)

sorted(s) == SortedByKey(s, [x \in Range(s) |-> x])

-----------------------------------------------------------------------------
(* botoform.subnetallocator.allocate, which is not among the sources: modelled *)
(* from the CidrAllocator contract. A block is [base, len].                    *)

Reserved == 4          \* first 2 and last 2 addresses of a block are unusable

ParentLen == Pow2(ParentBits)

cidr_block == [base |-> 0, len |-> ParentLen]

\* The smallest power of two whose usable addresses hold `size` hosts.
RECURSIVE FitLen(_, _)
FitLen(size, len) == IF len - Reserved >= size THEN len ELSE FitLen(size, 2 * len)

BlockLen(size) == FitLen(size, 1)

\* sizes ascending; the largest block lies lowest, the smallest highest.
allocate(parent, sizes) ==
  LET lens == [i \in 1..Len(sizes) |-> BlockLen(sizes[i])]
  IN  IF SumSeq(lens) > parent.len
      THEN [ok |-> FALSE, cidrs |-> <<>>]
      ELSE [ok |-> TRUE,
            cidrs |-> [i \in 1..Len(sizes) |->
              [base |-> parent.base + SumSeq(SubSeq(lens, i + 1, Len(lens))),
               len  |-> lens[i]]]]

Overlap(a, b) == a.base < b.base + b.len /\ b.base < a.base + a.len

Within(a, parent) ==
  parent.base <= a.base /\ a.base + a.len <= parent.base + parent.len

-----------------------------------------------------------------------------
(* The configurations the model is run on. An optional key of a dict is a   *)
(* sequence: <<>> when the key is absent, <<v>> when it holds v.            *)

Sizes == {4, 12}
RoleNames == {"web", "db"}

RouteTableCfg ==
  << [name |-> "public", main |-> FALSE], [name |-> "private", main |-> TRUE] >>

SecurityGroupCfg ==
  << [name |-> "web", rules |-> << <<"0.0.0.0/0", "tcp", 80>> >>],
     [name |-> "db",  rules |-> << <<"web", "tcp", 5432>>,
                                   <<"10.0.0.0/8", "icmp", 0>> >>] >>

SubnetCfgs(n) ==
  { s \in [1..n -> [name : 1..n, size : Sizes, availability_zone : {<<>>},
                    route_table : {None, "public"}]] :
      \A i \in 1..n : s[i].name = i }

\* Every ordering of every subset of the names 1..n.
SubnetLists(n) ==
  UNION { { s \in [1..m -> 1..n] : \A i, j \in 1..m : i # j => s[i] # s[j] }
          : m \in 0..n }

AllNames(n) == [i \in 1..n |-> i]

Configs ==
  UNION { { [amis            |-> TRUE,
             route_tables    |-> RouteTableCfg,
             subnets         |-> sn,
             endpoints       |-> ep,
             security_groups |-> SecurityGroupCfg,
             instance_roles  |-> << [name |-> "web", count |-> c,
                                     subnets |-> AllNames(n)] >>]
            : sn \in SubnetCfgs(n), ep \in {<<>>, <<"private">>},
              c \in {<<>>, <<1>>, <<MaxCount>>} }
          : n \in 1..MaxSubnets }

NoInstances == [n \in 1..MaxSubnets |-> [r \in RoleNames |-> 0]]

NoCalls == [route_table |-> 0, subnet |-> 0, security_group |-> 0,
            instances |-> 0, association |-> 0, endpoint |-> 0, authorize |-> 0,
            authorize_ingress |-> <<>>]

NoRole == [active |-> FALSE, name |-> None, subnets |-> <<>>, needed_count |-> 0,
           needed_per_subnet |-> 0, needed_remainder |-> 0, k |-> 0]

Init ==
  /\ config \in Configs
  /\ vpc = [exists |-> FALSE, dns |-> FALSE, igw |-> FALSE]
  /\ evpc_route_tables = {}
  /\ evpc_subnets = <<>>
  /\ evpc_associations = {}
  /\ evpc_endpoints = {}
  /\ evpc_security_groups = {}
  /\ evpc_ingress = {}
  /\ evpc_instances = NoInstances
  /\ evpc_locked = FALSE
  /\ evpc_running = {}
  /\ pc = "idle"
  /\ idx = 1
  /\ pools = <<>>
  /\ role_state = NoRole
  /\ runs = 0
  /\ created = NoCalls
  /\ launches = <<>>
  /\ error = None
  /\ raised = FALSE
  /\ log = {}
  /\ before = [all_present |-> FALSE, fresh |-> TRUE]

-----------------------------------------------------------------------------
(* What the builder reads of the cloud (EnrichedVPC) *)

azones == [i \in 1..NumZones |-> i]

get_subnet(name) == \E i \in 1..Len(evpc_subnets) : evpc_subnets[i].name = name

RECURSIVE SumOver(_, _)
SumOver(f, S) ==
  IF S = {} THEN 0 ELSE LET x == CHOOSE y \in S : TRUE IN f[x] + SumOver(f, S \ {x})

\* collection_len(sn.instances): every instance in the subnet, of any role
collection_len(name) == SumOver(evpc_instances[name], RoleNames)

instance_count ==
  SumOver([n \in DOMAIN evpc_instances |-> collection_len(n)], DOMAIN evpc_instances)

role_count(role) ==
  SumOver([n \in DOMAIN evpc_instances |-> evpc_instances[n][role]],
          DOMAIN evpc_instances)

desired_count(role_data) ==
  IF role_data.count = <<>> THEN 0 ELSE role_data.count[1]

\* self.vpc_name, which is also evpc.name
vpc_name == "env"

\* '{}-{}'.format(self.evpc.name, name)
longname(name) == <<vpc_name, name>>

\* Mutant: the resource is left without its Name tag
update_tags_Untagged(Name) == <<>>

\* update_tags(resource, Name = longname): the Name tag the resource carries
update_tags(Name) == Name

\* evpc.get_route_table(name): is there a route table tagged Name = name
get_route_table(name) == name \in evpc_route_tables

\* evpc.get_security_group(name): the security group of the VPC that the
\* logical name stands for, <<>> for None
get_security_group(name) ==
  LET found == {sg \in evpc_security_groups : sg.Name = longname(name)}
  IN  IF found = {} THEN <<>> ELSE <<CHOOSE sg \in found : TRUE>>

\* the provider's id of a security group created now
new_group_id == Cardinality(evpc_security_groups) + 1

\* Every declared route table, subnet, security group and instance exists.
AllPresent ==
  /\ vpc.exists
  /\ \A i \in 1..Len(config.route_tables) :
       get_route_table(longname(config.route_tables[i].name))
  /\ \A i \in 1..Len(config.subnets) : get_subnet(config.subnets[i].name)
  /\ \A i \in 1..Len(config.security_groups) :
       get_security_group(config.security_groups[i].name) # <<>>
  /\ \A i \in 1..Len(config.instance_roles) :
       role_count(config.instance_roles[i].name)
         >= desired_count(config.instance_roles[i])

-----------------------------------------------------------------------------
(* apply_all and _apply_all *)

Steps == << "route_tables", "subnets", "associate_route_tables_with_subnets",
            "endpoints", "security_groups", "instance_roles",
            "security_group_rules", "wait_until_running", "lock_instances" >>

\* Mutant: the instance roles are built before the security groups
NextStep_RolesFirst(step) ==
  CASE step = "route_tables" -> "subnets"
    [] step = "subnets" -> "associate_route_tables_with_subnets"
    [] step = "associate_route_tables_with_subnets" -> "endpoints"
    [] step = "endpoints" -> "instance_roles"
    [] step = "instance_roles" -> "security_groups"
    [] step = "security_groups" -> "security_group_rules"
    [] step = "security_group_rules" -> "wait_until_running"
    [] step = "wait_until_running" -> "lock_instances"

\* _apply_all: the call that follows the call of `step`
NextStep(step) ==
  CASE step = "route_tables" -> "subnets"
    [] step = "subnets" -> "associate_route_tables_with_subnets"
    [] step = "associate_route_tables_with_subnets" -> "endpoints"
    [] step = "endpoints" -> "security_groups"
    [] step = "security_groups" -> "instance_roles"
    [] step = "instance_roles" -> "security_group_rules"
    [] step = "security_group_rules" -> "wait_until_running"
    [] step = "wait_until_running" -> "lock_instances"

\* The number of iterations of the loop of `step` (endpoints: its one body)
StepLen(step) ==
  CASE step = "route_tables" -> Len(config.route_tables)
    [] step = "subnets" -> Len(config.subnets)
    [] step = "associate_route_tables_with_subnets" -> Len(config.subnets)
    [] step = "endpoints" -> 1
    [] step = "security_groups" -> Len(config.security_groups)
    [] step = "instance_roles" -> Len(config.instance_roles)
    [] step = "security_group_rules" -> Len(config.security_groups)
    [] step = "wait_until_running" -> instance_count

FirstIndex(step) == IF step = "subnets" THEN 0 ELSE 1

ErrorLines == {"error: Botoform failed to build environment!",
               "error: Tearing down failed environment!"}

\* Mutant: the except clause logs and does not re-raise
apply_all_except_NoRaise(e, logged) ==
  /\ pc' = "failed"
  /\ error' = e
  /\ raised' = FALSE
  /\ log' = logged \cup ErrorLines
  /\ UNCHANGED cloud

\* Mutant: the except clause logs the error and apply_all returns normally
apply_all_except_Swallow(e, logged) ==
  /\ pc' = "done"
  /\ error' = e
  /\ raised' = FALSE
  /\ log' = logged \cup ErrorLines
  /\ UNCHANGED cloud

\* Mutant: the except clause terminates the instances of the environment
teardown_Terminate ==
  /\ evpc_instances' = NoInstances
  /\ UNCHANGED <<vpc, evpc_route_tables, evpc_subnets, evpc_associations,
                 evpc_endpoints, evpc_security_groups, evpc_ingress>>

\* apply_all's except clause tears nothing down: self.evpc.terminate() is
\* commented out
teardown == UNCHANGED cloud

\* apply_all's except clause: log, no teardown, re-raise
apply_all_except(e, logged) ==
  /\ pc' = "failed"
  /\ error' = e
  /\ raised' = TRUE
  /\ log' = logged \cup ErrorLines
  /\ teardown

\* The builder's other public call: build_vpc(cidrblock)
build_vpc ==
  /\ pc \in {"idle", "done", "failed"}
  /\ ~vpc.exists
  /\ vpc' = [exists |-> TRUE, dns |-> TRUE, igw |-> TRUE]
  /\ UNCHANGED <<config, evpc_route_tables, evpc_subnets, evpc_associations,
                 evpc_endpoints, evpc_security_groups, evpc_ingress,
                 evpc_instances, evpc_locked, evpc_running, pc, idx, pools, role_state, runs,
                 created, launches, error, raised, log, before>>

\* Mutant: _apply_all builds the VPC when it is absent
attach_evpc_Building ==
  vpc' = IF vpc.exists THEN vpc ELSE [exists |-> TRUE, dns |-> TRUE, igw |-> TRUE]

\* _apply_all: self.evpc = EnrichedVPC(vpc_name, ...) attaches to the VPC of
\* that name; build_vpc is not called
attach_evpc == UNCHANGED vpc

apply_all ==
  /\ pc \in {"idle", "done", "failed"}
  /\ runs < MaxRuns
  /\ runs' = runs + 1
  /\ created' = NoCalls
  /\ launches' = <<>>
  /\ before' = [all_present |-> AllPresent, fresh |-> evpc_subnets = <<>>]
  /\ idx' = 1
  /\ attach_evpc
  /\ IF vpc'.exists
     THEN /\ pc' = "route_tables"
          /\ error' = None
          /\ raised' = FALSE
          /\ log' = {}
     ELSE apply_all_except("VpcNotFound", {})
  /\ UNCHANGED <<config, evpc_route_tables, evpc_subnets, evpc_associations,
                 evpc_endpoints, evpc_security_groups, evpc_ingress,
                 evpc_instances, evpc_locked, evpc_running, pools, role_state>>

\* A step returns and _apply_all makes its next call
step_return ==
  /\ pc \in Range(Steps) \ {"lock_instances"}
  /\ idx > StepLen(pc)
  /\ pc' = NextStep(pc)
  /\ idx' = FirstIndex(NextStep(pc))
  /\ UNCHANGED <<config, cloud, evpc_locked, evpc_running, pools, role_state, runs, created,
                 launches, error, raised, log, before>>

route_tables ==
  /\ pc = "route_tables"
  /\ idx <= Len(config.route_tables)
  /\ LET data == config.route_tables[idx]
         name == longname(data.name)
     IN  IF get_route_table(name)
         THEN UNCHANGED <<evpc_route_tables, created>>
         ELSE /\ evpc_route_tables' = evpc_route_tables \cup {update_tags(name)}
              /\ created' = IF data.main THEN created
                            ELSE [created EXCEPT !.route_table = @ + 1]
  /\ idx' = idx + 1
  /\ UNCHANGED <<config, vpc, evpc_subnets, evpc_associations, evpc_endpoints,
                 evpc_security_groups, evpc_ingress, evpc_instances, evpc_locked, evpc_running,
                 pc, pools, role_state, runs, launches, error, raised, log,
                 before>>

\* subnets(): the dict size -> cidrs built from zip(sizes, cidrs)
GroupBySize(sizes, cidrs) ==
  LET at(sz) == SelectSeq([i \in 1..Len(sizes) |-> i], LAMBDA i : sizes[i] = sz)
  IN  [sz \in Range(sizes) |-> [j \in 1..Len(at(sz)) |-> cidrs[at(sz)[j]]]]

\* list.pop(): the last item, and the list without it
pop_item(list) == list[Len(list)]

\* Mutant: the last item is read and not removed (list[-1] for list.pop())
pop_rest_Keep(list) == list

pop_rest(list) == SubSeq(list, 1, Len(list) - 1)

\* subnets(): the zone of a subnet; ok is FALSE for Python's IndexError
az_name(sn) ==
  IF sn.availability_zone # <<>>
  THEN [ok |-> TRUE, zone |-> sn.availability_zone[1]]
  ELSE LET az_index == sn.name - 1
       IN  IF 0 <= az_index /\ az_index < NumZones
           THEN [ok |-> TRUE, zone |-> azones[az_index + 1]]
           ELSE IF az_index < 0 /\ -NumZones <= az_index
           THEN [ok |-> TRUE, zone |-> azones[NumZones + az_index + 1]]
           ELSE [ok |-> FALSE, zone |-> 0]

subnets_allocate ==
  /\ pc = "subnets"
  /\ idx = 0
  /\ LET sizes == sorted([i \in 1..Len(config.subnets) |-> config.subnets[i].size])
         plan == allocate(cidr_block, sizes)
     IN  IF plan.ok
         THEN /\ pools' = GroupBySize(sizes, plan.cidrs)
              /\ idx' = 1
              /\ UNCHANGED <<pc, error, raised, log>>
         ELSE /\ apply_all_except("AllocationError", log)
              /\ UNCHANGED <<pools, idx>>
  /\ UNCHANGED <<config, cloud, evpc_locked, evpc_running, role_state, runs, created, launches,
                 before>>

subnets ==
  /\ pc = "subnets"
  /\ idx >= 1
  /\ idx <= Len(config.subnets)
  /\ LET sn == config.subnets[idx]
         az == az_name(sn)
         cidr == pop_item(pools[sn.size])
     IN  IF az.ok
         THEN /\ evpc_subnets' = Append(evpc_subnets,
                   [name |-> sn.name, base |-> cidr.base, len |-> cidr.len,
                    az |-> az.zone])
              /\ pools' = [pools EXCEPT ![sn.size] = pop_rest(@)]
              /\ created' = [created EXCEPT !.subnet = @ + 1]
              /\ idx' = idx + 1
              /\ UNCHANGED <<pc, error, raised, log>>
         ELSE /\ apply_all_except("IndexError", log)
              /\ UNCHANGED <<evpc_subnets, pools, created, idx>>
  /\ UNCHANGED <<config, vpc, evpc_route_tables, evpc_associations,
                 evpc_endpoints, evpc_security_groups, evpc_ingress,
                 evpc_instances, evpc_locked, evpc_running, role_state, runs, launches, before>>

associate_route_tables_with_subnets ==
  /\ pc = "associate_route_tables_with_subnets"
  /\ idx <= Len(config.subnets)
  /\ LET sn_data == config.subnets[idx]
     IN  IF sn_data.route_table = None
         THEN UNCHANGED <<evpc_associations, created>>
         ELSE /\ evpc_associations' =
                   evpc_associations \cup {<<sn_data.route_table, sn_data.name>>}
              /\ created' = [created EXCEPT !.association = @ + 1]
  /\ idx' = idx + 1
  /\ UNCHANGED <<config, vpc, evpc_route_tables, evpc_subnets, evpc_endpoints,
                 evpc_security_groups, evpc_ingress, evpc_instances, evpc_locked, evpc_running,
                 pc, pools, role_state, runs, launches, error, raised, log,
                 before>>

endpoints ==
  /\ pc = "endpoints"
  /\ idx = 1
  /\ IF Len(config.endpoints) = 0
     THEN UNCHANGED <<evpc_endpoints, created>>
     ELSE /\ evpc_endpoints' = evpc_endpoints \cup Range(config.endpoints)
          /\ created' = [created EXCEPT !.endpoint = @ + 1]
  /\ idx' = idx + 1
  /\ UNCHANGED <<config, vpc, evpc_route_tables, evpc_subnets, evpc_associations,
                 evpc_security_groups, evpc_ingress, evpc_instances, evpc_locked, evpc_running,
                 pc, pools, role_state, runs, launches, error, raised, log,
                 before>>

security_groups ==
  /\ pc = "security_groups"
  /\ idx <= Len(config.security_groups)
  /\ LET sg_name == config.security_groups[idx].name
         name == longname(sg_name)
     IN  IF get_security_group(sg_name) # <<>>
         THEN UNCHANGED <<evpc_security_groups, created>>
         ELSE /\ evpc_security_groups' = evpc_security_groups \cup
                   {[GroupName |-> name, Name |-> update_tags(name),
                     id |-> new_group_id]}
              /\ created' = [created EXCEPT !.security_group = @ + 1]
  /\ idx' = idx + 1
  /\ UNCHANGED <<config, vpc, evpc_route_tables, evpc_subnets, evpc_associations,
                 evpc_endpoints, evpc_ingress, evpc_instances, evpc_locked, evpc_running, pc,
                 pools, role_state, runs, launches, error, raised, log, before>>

-----------------------------------------------------------------------------
(* instance_roles and instance_role *)

\* Mutant: `>` for `>=`
enough_Strict(existing_count, desired) == existing_count > desired

\* instance_role: `existing_count >= desired_count`, the early exit
enough(existing_count, desired) == existing_count >= desired

\* instance_role: the count of one create_instances call
launch_count(needed_per_subnet, current, needed_remainder) ==
  (needed_per_subnet - current) + (IF needed_remainder # 0 THEN 1 ELSE 0)

\* create_instances(MinCount = MaxCount = count): the instances it adds
launched(count) == IF count > 0 THEN count ELSE 0

current_counts == [n \in DOMAIN evpc_instances |-> collection_len(n)]

NoSubnetsWarning == "warning: no subnets found for role"

\* Mutant: a role without subnets raises
instance_role_no_subnets_Raise ==
  /\ apply_all_except("ConfigurationError", log)
  /\ UNCHANGED <<role_state, idx>>

\* instance_role: `if len(subnets) == 0`, warn and exit early
instance_role_no_subnets ==
  /\ log' = log \cup {NoSubnetsWarning}
  /\ idx' = idx + 1
  /\ UNCHANGED <<role_state, pc, error, raised>>

instance_role_begin ==
  /\ pc = "instance_roles"
  /\ idx <= Len(config.instance_roles)
  /\ ~role_state.active
  /\ LET role_data == config.instance_roles[idx]
         names == role_data.subnets
         ordered == SortedByKey(names, current_counts)
         existing_count ==
           SumSeq([i \in 1..Len(ordered) |-> current_counts[ordered[i]]])
         needed_count == desired_count(role_data) - existing_count
     IN  IF Len(names) = 0
         THEN instance_role_no_subnets
         ELSE IF \E i \in 1..Len(names) : ~get_subnet(names[i])
         THEN /\ apply_all_except("AttributeError", log)
              /\ UNCHANGED <<role_state, idx>>
         ELSE IF enough(existing_count, desired_count(role_data))
         THEN /\ idx' = idx + 1
              /\ UNCHANGED <<role_state, pc, error, raised, log>>
         ELSE /\ role_state' =
                   [active |-> TRUE, name |-> role_data.name, subnets |-> ordered,
                    needed_count |-> needed_count,
                    needed_per_subnet |-> needed_count \div Len(ordered),
                    needed_remainder |-> needed_count % Len(ordered),
                    k |-> 1]
              /\ UNCHANGED <<idx, pc, error, raised, log>>
  /\ UNCHANGED <<config, cloud, evpc_locked, evpc_running, pools, runs, created, launches,
                 before>>

instance_role_launch ==
  /\ pc = "instance_roles"
  /\ role_state.active
  /\ role_state.k <= Len(role_state.subnets)
  /\ LET subnet == role_state.subnets[role_state.k]
         count == launch_count(role_state.needed_per_subnet,
                               collection_len(subnet),
                               role_state.needed_remainder)
     IN  /\ launches' = Append(launches,
              [role |-> role_state.name, subnet |-> subnet, count |-> count])
         /\ created' = [created EXCEPT !.instances = @ + 1]
         /\ evpc_instances' =
              [evpc_instances EXCEPT ![subnet][role_state.name] = @ + launched(count)]
         /\ role_state' =
              [role_state EXCEPT
                 !.k = @ + 1,
                 !.needed_remainder = IF @ # 0 THEN @ - 1 ELSE @]
  /\ UNCHANGED <<config, vpc, evpc_route_tables, evpc_subnets, evpc_associations,
                 evpc_endpoints, evpc_security_groups, evpc_ingress, evpc_locked, evpc_running,
                 pc, idx, pools, runs, error, raised, log, before>>

instance_role_return ==
  /\ pc = "instance_roles"
  /\ role_state.active
  /\ role_state.k > Len(role_state.subnets)
  /\ role_state' = NoRole
  /\ idx' = idx + 1
  /\ UNCHANGED <<config, cloud, evpc_locked, evpc_running, pc, pools, runs, created, launches,
                 error, raised, log, before>>

-----------------------------------------------------------------------------
(* security_group_rules, the wait and the lock *)

\* botoform.util.get_port_range, which is not among the sources
get_port_range(port_spec, protocol) ==
  IF protocol = "icmp" THEN [from_port |-> -1, to_port |-> -1]
  ELSE [from_port |-> port_spec, to_port |-> port_spec]

\* Mutant: the permission names the source both ways
permission_Both(rule) ==
  LET ports == get_port_range(rule[3], rule[2])
      src_sg == get_security_group(rule[1])
  IN  [IpProtocol |-> rule[2],
       FromPort |-> ports.from_port,
       ToPort |-> ports.to_port,
       IpRanges |-> <<[CidrIp |-> rule[1]]>>,
       UserIdGroupPairs |->
         IF src_sg = <<>> THEN <<>> ELSE <<[GroupId |-> src_sg[1].id]>>]

\* security_group_rules: the permission of one rule (source, protocol, ports).
\* A key the dict does not hold is <<>>.
permission(rule) ==
  LET ports == get_port_range(rule[3], rule[2])
      src_sg == get_security_group(rule[1])
  IN  [IpProtocol |-> rule[2],
       FromPort |-> ports.from_port,
       ToPort |-> ports.to_port,
       IpRanges |-> IF src_sg = <<>> THEN <<[CidrIp |-> rule[1]]>> ELSE <<>>,
       UserIdGroupPairs |->
         IF src_sg = <<>> THEN <<>> ELSE <<[GroupId |-> src_sg[1].id]>>]

\* Mutant: the list of permissions is emptied for every rule
permissions_of_Last(rules) ==
  IF Len(rules) = 0 THEN <<>> ELSE <<permission(rules[Len(rules)])>>

\* security_group_rules: the list `permissions` after the loop over the rules
permissions_of(rules) == [j \in 1..Len(rules) |-> permission(rules[j])]

security_group_rules ==
  /\ pc = "security_group_rules"
  /\ idx <= Len(config.security_groups)
  /\ LET sg_name == config.security_groups[idx].name
         sg == get_security_group(sg_name)
         permissions == permissions_of(config.security_groups[idx].rules)
         call == [group |-> sg[1].id, IpPermissions |-> permissions]
     IN  IF sg # <<>>
         THEN /\ evpc_ingress' = evpc_ingress \cup {call}
              /\ created' = [created EXCEPT
                               !.authorize = @ + 1,
                               !.authorize_ingress = Append(@, call)]
              /\ idx' = idx + 1
              /\ UNCHANGED <<pc, error, raised, log>>
         ELSE /\ apply_all_except("AttributeError", log)
              /\ UNCHANGED <<evpc_ingress, created, idx>>
  /\ UNCHANGED <<config, vpc, evpc_route_tables, evpc_subnets, evpc_associations,
                 evpc_endpoints, evpc_security_groups, evpc_instances, evpc_locked, evpc_running,
                 pools, role_state, runs, launches, before>>

\* An instance reaches the running state on its own. Nothing reads the state
\* of an instance before the wait loop, nor the state of an instance the loop
\* has passed, so the event is taken while the loop waits.
instance_starts ==
  /\ pc = "wait_until_running"
  /\ \E i \in idx..instance_count :
       /\ i \notin evpc_running
       /\ evpc_running' = evpc_running \cup {i}
  /\ UNCHANGED <<config, cloud, evpc_locked, pc, idx, pools, role_state, runs,
                 created, launches, error, raised, log, before>>

\* Mutant: the loop does not wait for the instance
wait_returns_NoWait(i) == TRUE

\* instance.wait_until_running() returns once the instance is running
wait_returns(i) == i \in evpc_running

\* What the failed wait tells about: the instance the loop was waiting for
waiting_for == {idx}

\* _apply_all: instance.wait_until_running() raises, the instance not having
\* reached running within the waiter's attempts
wait_until_running_timeout ==
  /\ pc = "wait_until_running"
  /\ idx <= instance_count
  /\ idx \notin evpc_running
  /\ apply_all_except("WaiterError", log)
  /\ UNCHANGED <<config, evpc_locked, evpc_running, idx, pools, role_state,
                 runs, created, launches, before>>

\* _apply_all: instance.wait_until_running() returns for one instance
wait_until_running ==
  /\ pc = "wait_until_running"
  /\ idx <= instance_count
  /\ wait_returns(idx)
  /\ idx' = idx + 1
  /\ UNCHANGED <<config, cloud, evpc_locked, evpc_running, pc, pools, role_state, runs, created,
                 launches, error, raised, log, before>>

LockWarning == "warning: could not lock instances, continuing..."

\* Mutant: no try/except around lock_instances
lock_except_Raise ==
  /\ apply_all_except("LockError", log)
  /\ UNCHANGED evpc_locked

\* _apply_all: what follows evpc.lock_instances() raising
lock_except ==
  /\ pc' = "done"
  /\ log' = log \cup {LockWarning}
  /\ UNCHANGED <<error, raised, evpc_locked>>

lock_instances ==
  /\ pc = "lock_instances"
  /\ \/ /\ evpc_locked' = TRUE
        /\ pc' = "done"
        /\ UNCHANGED <<error, raised, log>>
     \/ lock_except
  /\ UNCHANGED <<config, cloud, evpc_running, idx, pools, role_state, runs,
                 created, launches, before>>

\* A call to the provider raises in one of the steps before the lock
provider_error ==
  /\ pc \in Range(Steps) \ {"lock_instances"}
  /\ idx >= 1
  /\ idx <= StepLen(pc)
  /\ pc = "endpoints" => Len(config.endpoints) > 0
  /\ pc = "associate_route_tables_with_subnets" =>
       config.subnets[idx].route_table # None
  /\ pc = "instance_roles" =>
       /\ role_state.active => role_state.k <= Len(role_state.subnets)
       /\ ~role_state.active => Len(config.instance_roles[idx].subnets) > 0
  /\ apply_all_except("ProviderError", log)
  /\ UNCHANGED <<config, evpc_locked, evpc_running, idx, pools, role_state,
                 runs, created, launches, before>>

Next ==
  \/ build_vpc
  \/ apply_all
  \/ step_return
  \/ route_tables
  \/ subnets_allocate
  \/ subnets
  \/ associate_route_tables_with_subnets
  \/ endpoints
  \/ security_groups
  \/ instance_role_begin
  \/ instance_role_launch
  \/ instance_role_return
  \/ security_group_rules
  \/ instance_starts
  \/ wait_until_running
  \/ wait_until_running_timeout
  \/ lock_instances
  \/ provider_error

Spec == Init /\ [][Next]_vars

-----------------------------------------------------------------------------
(* instance_roles on its own: the step is entered on an environment whose    *)
(* subnets hold any number of instances of the role                          *)

FleetConfigs ==
  UNION { { [amis            |-> TRUE,
             route_tables    |-> RouteTableCfg,
             subnets         |-> [i \in 1..n |->
                                   [name |-> i, size |-> 4,
                                    availability_zone |-> <<>>,
                                    route_table |-> None]],
             endpoints       |-> <<>>,
             security_groups |-> SecurityGroupCfg,
             instance_roles  |->
               << [name |-> "web", count |-> c, subnets |-> sns] >> \o more]
            : c \in {<<>>} \cup {<<d>> : d \in 0..MaxCount},
              sns \in SubnetLists(n),
              more \in {<<>>, << [name |-> "db", count |-> <<1>>,
                                  subnets |-> AllNames(n)] >>} }
          : n \in 1..MaxSubnets }

InitFleet ==
  /\ config \in FleetConfigs
  /\ vpc = [exists |-> TRUE, dns |-> TRUE, igw |-> TRUE]
  /\ evpc_route_tables = {longname("public"), longname("private")}
  /\ LET n == Len(config.subnets)
         plan == allocate(cidr_block, [i \in 1..n |-> 4])
     IN  /\ evpc_subnets = [i \in 1..n |->
              [name |-> i, base |-> plan.cidrs[i].base, len |-> plan.cidrs[i].len,
               az |-> azones[i]]]
         /\ evpc_instances \in
              { f \in [1..MaxSubnets -> [RoleNames -> 0..MaxCurrent]] :
                  \A i \in 1..MaxSubnets :
                    f[i]["db"] = 0 /\ (i > n => f[i]["web"] = 0) }
  /\ evpc_associations = {}
  /\ evpc_endpoints = {}
  /\ evpc_security_groups =
       {[GroupName |-> longname("web"), Name |-> longname("web"), id |-> 1],
        [GroupName |-> longname("db"), Name |-> longname("db"), id |-> 2]}
  /\ evpc_ingress = {}
  /\ evpc_locked = FALSE
  /\ evpc_running = {}
  /\ pc = "instance_roles"
  /\ idx = 1
  /\ pools = <<>>
  /\ role_state = NoRole
  /\ runs = 1
  /\ created = NoCalls
  /\ launches = <<>>
  /\ error = None
  /\ raised = FALSE
  /\ log = {}
  /\ before = [all_present |-> FALSE, fresh |-> FALSE]

NextFleet ==
  \/ instance_role_begin
  \/ instance_role_launch
  \/ instance_role_return
  \/ step_return
  \/ provider_error

FleetSpec == InitFleet /\ [][NextFleet]_vars

-----------------------------------------------------------------------------
(* subnets on its own: the step is entered with subnets declared under any   *)
(* names "x-N", N from 0 to one more than the number of zones, with or       *)
(* without an explicit availability_zone                                     *)

SubnetNumbers == 0..(NumZones + 1)

ZoneConfigs ==
  UNION { { [amis            |-> TRUE,
             route_tables    |-> RouteTableCfg,
             subnets         |-> sn,
             endpoints       |-> <<>>,
             security_groups |-> SecurityGroupCfg,
             instance_roles  |-> <<>>]
            : sn \in { s \in [1..n -> [name : SubnetNumbers, size : {4},
                                       availability_zone : {<<>>, <<1>>},
                                       route_table : {None}]] :
                         \A i, j \in 1..n : i # j => s[i].name # s[j].name } }
          : n \in 1..MaxSubnets }

InitZones ==
  /\ config \in ZoneConfigs
  /\ vpc = [exists |-> TRUE, dns |-> TRUE, igw |-> TRUE]
  /\ evpc_route_tables = {longname("public"), longname("private")}
  /\ evpc_subnets = <<>>
  /\ evpc_associations = {}
  /\ evpc_endpoints = {}
  /\ evpc_security_groups = {}
  /\ evpc_ingress = {}
  /\ evpc_instances = NoInstances
  /\ evpc_locked = FALSE
  /\ evpc_running = {}
  /\ pc = "subnets"
  /\ idx = 0
  /\ pools = <<>>
  /\ role_state = NoRole
  /\ runs = 1
  /\ created = NoCalls
  /\ launches = <<>>
  /\ error = None
  /\ raised = FALSE
  /\ log = {}
  /\ before = [all_present |-> FALSE, fresh |-> TRUE]

NextZones ==
  \/ subnets_allocate
  \/ subnets
  \/ step_return
  \/ provider_error

ZoneSpec == InitZones /\ [][NextZones]_vars

-----------------------------------------------------------------------------
(* The claims *)

InRun == runs >= 1 /\ pc # "idle"

RoleSubnetsExisting(role_data) ==
  SumSeq([i \in 1..Len(role_data.subnets) |-> collection_len(role_data.subnets[i])])

RoleLaunchCounts(role) ==
  LET mine == SelectSeq(launches, LAMBDA l : l.role = role)
  IN  [i \in 1..Len(mine) |-> mine[i].count]

AtRole == pc = "instance_roles" /\ ~role_state.active
          /\ idx <= Len(config.instance_roles)

\* C1: a run of apply_all that finds every declared route table, subnet,
\* security group and instance present issues no creation call and raises no
\* error of its own.
C1_RerunCreatesNothing ==
  (InRun /\ before.all_present) =>
     /\ created.route_table = 0
     /\ created.subnet = 0
     /\ created.security_group = 0
     /\ created.instances = 0
     /\ error \in {None, "ProviderError"}

\* C2: when instance_role has made all its launches for a role, the counts it
\* passed to create_instances sum to needed = desired_count - existing_count.
C2_LaunchesSumToNeeded ==
  (pc = "instance_roles" /\ role_state.active
     /\ role_state.k > Len(role_state.subnets)) =>
       SumSeq(RoleLaunchCounts(role_state.name)) = role_state.needed_count

\* C3: every count passed to create_instances as MinCount/MaxCount is >= 0.
C3_NoNegativeLaunch ==
  \A i \in 1..Len(launches) : launches[i].count >= 0

\* C4: when the instances in a role's subnets number at least its desired
\* count (0 when it declares none), instance_role issues no create_instances
\* call, changes no instance and does not enter its launch loop.
C4_NoLaunchWhenEnough ==
  [][ (AtRole /\ RoleSubnetsExisting(config.instance_roles[idx])
                   >= desired_count(config.instance_roles[idx]))
      => /\ launches' = launches
         /\ created'.instances = created.instances
         /\ evpc_instances' = evpc_instances
         /\ ~role_state'.active ]_vars

C4_Witness ==
  /\ pc = "instance_roles"
  /\ idx = 2
  /\ ~role_state.active
  /\ launches = <<>>
  /\ Len(config.instance_roles[1].subnets) > 0
  /\ RoleSubnetsExisting(config.instance_roles[1]) > 0
  /\ RoleSubnetsExisting(config.instance_roles[1])
       >= desired_count(config.instance_roles[1])

\* C5 as claimed: a role whose list of subnets is empty is never passed over
\* with the run going on: the run ends with the error raised to the caller.
C5_EmptySubnetsIsError ==
  \A i \in 1..Len(config.instance_roles) :
    (InRun /\ Len(config.instance_roles[i].subnets) = 0
       /\ \/ pc = "instance_roles" /\ idx > i
          \/ pc \in {"security_group_rules", "wait_until_running",
                     "lock_instances", "done"})
      => raised

\* C5 as amended: for a role whose list of subnets is empty instance_role logs
\* a warning and returns: nothing is launched, no error is raised, and
\* instance_roles goes on with the next role.
C5_EmptySubnetsSkipped ==
  [][ (AtRole /\ Len(config.instance_roles[idx].subnets) = 0)
      => /\ pc' = "instance_roles"
         /\ idx' = idx + 1
         /\ ~raised'
         /\ error' = None
         /\ NoSubnetsWarning \in log'
         /\ launches' = launches
         /\ evpc_instances' = evpc_instances ]_vars

C5_Witness ==
  /\ pc = "instance_roles"
  /\ idx = 2
  /\ Len(config.instance_roles) = 2
  /\ Len(config.instance_roles[1].subnets) = 0
  /\ NoSubnetsWarning \in log
  /\ ~raised

\* C6: apply_all takes its steps in the order route tables, subnets,
\* associations, endpoints, security groups, instance roles, security group
\* rules, wait, lock, each only when the loop of the one before has ended; no
\* instance is launched and no ingress authorized before every declared
\* security group exists, and no association made before every declared
\* subnet exists.
C6_StepsInOrder ==
  /\ [][ pc' # pc =>
           \/ pc' = "failed"
           \/ pc \in {"idle", "done", "failed"} /\ pc' = Steps[1]
           \/ \E i \in 1..(Len(Steps) - 1) :
                pc = Steps[i] /\ pc' = Steps[i + 1] /\ idx > StepLen(pc)
           \/ pc = Steps[Len(Steps)] /\ pc' = "done" ]_vars
  /\ []((created.instances > 0 \/ created.authorize > 0) =>
          \A i \in 1..Len(config.security_groups) :
            get_security_group(config.security_groups[i].name) # <<>>)
  /\ [](created.association > 0 =>
          \A i \in 1..Len(config.subnets) : get_subnet(config.subnets[i].name))

C6_Witness ==
  /\ pc = "done"
  /\ created.instances > 0
  /\ created.authorize > 0
  /\ created.association > 0
  /\ created.security_group > 0

\* C7 as claimed: once apply_all has been called the VPC exists: the run
\* created it, if it was absent, before its other steps.
C7_ApplyAllEnsuresNetwork == InRun => vpc.exists

\* C7 as amended: apply_all never creates the VPC. The VPC changes only by the
\* separate call build_vpc, outside a run, which creates it with DNS support
\* and hostnames enabled and a gateway attached; the first step of a run is the
\* route tables.
C7_OnlyBuildVpcCreates ==
  [][ /\ vpc' # vpc =>
           /\ pc \in {"idle", "done", "failed"}
           /\ pc' = pc
           /\ runs' = runs
           /\ vpc' = [exists |-> TRUE, dns |-> TRUE, igw |-> TRUE]
      /\ runs' # runs => pc' \in {"route_tables", "failed"} ]_vars

C7_Witness == InRun /\ pc = "failed" /\ ~vpc.exists

\* The plan subnets() computes, and the declared size of a subnet
C8_Plan ==
  LET sizes == sorted([i \in 1..Len(config.subnets) |-> config.subnets[i].size])
  IN  allocate(cidr_block, sizes).cidrs

C8_SizeOf(name) ==
  LET i == CHOOSE j \in 1..Len(config.subnets) : config.subnets[j].name = name
  IN  config.subnets[i].size

C9_AllocationErrorAborts ==
  error = "AllocationError" =>
    /\ pc = "failed"
    /\ raised
    /\ created.subnet = 0
    /\ created.association = 0
    /\ created.endpoint = 0
    /\ created.security_group = 0
    /\ created.instances = 0
    /\ created.authorize = 0
    /\ (before.fresh => evpc_subnets = <<>>)

C9_Witness == error = "AllocationError" /\ created.route_table > 0

\* C10: lock_instances raising is not fatal: the run ends normally with no
\* error raised, a warning is logged, and nothing in the cloud is changed.
C10_LockFailureNotFatal ==
  [][ pc = "lock_instances" =>
        /\ pc' = "done"
        /\ ~raised'
        /\ error' = None
        /\ UNCHANGED cloud
        /\ (~evpc_locked' => LockWarning \in log') ]_vars

C10_Witness ==
  /\ pc = "done"
  /\ LockWarning \in log
  /\ ~evpc_locked
  /\ ~raised
  /\ created.instances > 0
  /\ created.subnet > 0


\* C11: an error raised in a step from the route tables to the wait ends the
\* run: the run is failed, never done, the error is logged and raised to the
\* caller of apply_all, and nothing more of the run executes; only a new call
\* of apply_all leaves the failed state.
C11_ErrorAborts ==
  /\ [](error # None => /\ pc = "failed"
                        /\ raised
                        /\ ErrorLines \subseteq log)
  /\ [](pc = "done" => error = None /\ ~raised)
  /\ [][ pc = "failed" =>
           \/ runs' = runs + 1
           \/ /\ pc' = "failed"
              /\ UNCHANGED <<created, launches, idx, error, raised, log,
                             evpc_route_tables, evpc_subnets, evpc_associations,
                             evpc_endpoints, evpc_security_groups, evpc_ingress,
                             evpc_instances, evpc_locked, evpc_running>> ]_vars

C11_Witness ==
  /\ pc = "failed"
  /\ error = "ProviderError"
  /\ raised
  /\ created.authorize = Len(config.security_groups)
  /\ instance_count > 0


\* C12: a run reaches the lock, and so its successful end, only when every
\* instance of the environment, launched by this run or found by it, is
\* running: the loop has waited for each of them, and termination protection
\* is enabled only then.
C12_DoneOnlyIfAllRunning ==
  /\ [](pc \in {"lock_instances", "done"} =>
          evpc_running = 1..instance_count)
  /\ [](pc = "wait_until_running" => 1..(idx - 1) \subseteq evpc_running)
  /\ [][evpc_locked' # evpc_locked => evpc_running = 1..instance_count]_vars

C12_Witness ==
  /\ pc = "done"
  /\ runs = 2
  /\ evpc_locked
  /\ Len(launches) > 0
  /\ SumSeq([i \in 1..Len(launches) |-> launched(launches[i].count)]) > 0
  /\ SumSeq([i \in 1..Len(launches) |-> launched(launches[i].count)]) < instance_count
  /\ evpc_running = 1..instance_count

\* C13: when the wait ends with an error, the error tells which instances
\* have not reached running: every instance that is not running is among
\* those the failed wait tells about.
C13_ReportsAllFailed ==
  (pc = "failed" /\ error = "WaiterError") =>
     (1..instance_count) \ evpc_running \subseteq waiting_for


\* Where the steps are in a run: the position of pc in the order of the steps
StepIndex(step) == CHOOSE i \in 1..Len(Steps) : Steps[i] = step

Past(step) ==
  \/ pc = "done"
  \/ pc \in Range(Steps) /\ StepIndex(pc) > StepIndex(step)

\* C14: every permission of an authorize_ingress call names its source in
\* exactly one way: when the source of the rule is the name of a security
\* group that is found, the permission holds that group's id under
\* UserIdGroupPairs and no IpRanges; when no group is found, the permission
\* holds the source as CidrIp under IpRanges and no UserIdGroupPairs.
C14_OneSourcePerPermission ==
  \A i \in 1..Len(created.authorize_ingress) :
    LET rules == config.security_groups[i].rules
        perms == created.authorize_ingress[i].IpPermissions
    IN  \A j \in 1..Len(perms) :
          /\ j <= Len(rules)
          /\ LET src_sg == get_security_group(rules[j][1])
             IN  IF src_sg # <<>>
                 THEN /\ perms[j].UserIdGroupPairs = <<[GroupId |-> src_sg[1].id]>>
                      /\ perms[j].IpRanges = <<>>
                 ELSE /\ perms[j].IpRanges = <<[CidrIp |-> rules[j][1]]>>
                      /\ perms[j].UserIdGroupPairs = <<>>

C14_Witness ==
  /\ Len(created.authorize_ingress) = 2
  /\ \E j \in 1..Len(created.authorize_ingress[2].IpPermissions) :
       created.authorize_ingress[2].IpPermissions[j].UserIdGroupPairs # <<>>
  /\ \E j \in 1..Len(created.authorize_ingress[2].IpPermissions) :
       created.authorize_ingress[2].IpPermissions[j].IpRanges # <<>>

\* C15: in one run security_group_rules calls authorize_ingress once for each
\* declared security group, in the order of the declaration; the call for a
\* group is made on that group and carries one permission for each of the
\* group's rules, in the order of the rules, and nothing else.
C15_OneCallPerGroup ==
  /\ Len(created.authorize_ingress) = created.authorize
  /\ Len(created.authorize_ingress) <= Len(config.security_groups)
  /\ Past("security_group_rules") =>
       Len(created.authorize_ingress) = Len(config.security_groups)
  /\ \A i \in 1..Len(created.authorize_ingress) :
       LET sg == get_security_group(config.security_groups[i].name)
           rules == config.security_groups[i].rules
           call == created.authorize_ingress[i]
       IN  /\ sg # <<>>
           /\ call.group = sg[1].id
           /\ Len(call.IpPermissions) = Len(rules)
           /\ \A j \in 1..Len(rules) :
                LET ports == get_port_range(rules[j][3], rules[j][2])
                IN  /\ call.IpPermissions[j].IpProtocol = rules[j][2]
                    /\ call.IpPermissions[j].FromPort = ports.from_port
                    /\ call.IpPermissions[j].ToPort = ports.to_port

C15_Witness ==
  /\ pc = "done"
  /\ Len(created.authorize_ingress) = 2
  /\ Len(created.authorize_ingress[2].IpPermissions) = 2
  /\ created.authorize_ingress[1].group # created.authorize_ingress[2].group

\* C16: route_tables and security_groups create what is absent and nothing
\* else. For a declared name that the lookup finds, the step creates and tags
\* nothing. For one it does not find, the step makes one creation call (none
\* for the main route table, which is adopted) and tags the resource with the
\* long name, the vpc name and the declared name, so that the lookup finds it:
\* once a run is past the step every declared name is found, and a run that
\* takes the step again creates nothing.
C16_CreateIfAbsent ==
  /\ [][ (pc = "route_tables" /\ idx' = idx + 1) =>
           LET data == config.route_tables[idx]
           IN  IF get_route_table(longname(data.name))
               THEN UNCHANGED <<evpc_route_tables, created>>
               ELSE /\ evpc_route_tables' =
                         evpc_route_tables \cup {longname(data.name)}
                    /\ created'.route_table =
                         created.route_table + (IF data.main THEN 0 ELSE 1) ]_vars
  /\ [][ (pc = "security_groups" /\ idx' = idx + 1) =>
           LET sg_name == config.security_groups[idx].name
           IN  IF get_security_group(sg_name) # <<>>
               THEN UNCHANGED <<evpc_security_groups, created>>
               ELSE /\ created'.security_group = created.security_group + 1
                    /\ \E sg \in evpc_security_groups' :
                         /\ sg.Name = longname(sg_name)
                         /\ evpc_security_groups' = evpc_security_groups \cup {sg} ]_vars
  /\ [](Past("route_tables") =>
          \A i \in 1..Len(config.route_tables) :
            get_route_table(longname(config.route_tables[i].name)))
  /\ [](Past("security_groups") =>
          \A i \in 1..Len(config.security_groups) :
            get_security_group(config.security_groups[i].name) # <<>>)
  /\ []((runs = 2 /\ before.all_present) =>
          created.route_table = 0 /\ created.security_group = 0)

C16_Witness ==
  /\ runs = 2
  /\ Past("security_groups")
  /\ before.all_present
  /\ created.route_table = 0
  /\ created.security_group = 0
  /\ evpc_route_tables = {longname("public"), longname("private")}
  /\ Cardinality(evpc_security_groups) = 2


\* C17: no step of a run and no failure of a run removes anything from the
\* environment: the VPC, the route tables, the subnets, the associations, the
\* endpoints, the security groups, the authorized ingress and the instances
\* of every subnet only grow, and the step in which a run fails leaves them
\* all as they were, so what the run created before it failed is still there
\* for the lookups of the next run.
C17_NothingDeleted ==
  /\ [][ /\ vpc.exists => vpc'.exists
         /\ evpc_route_tables \subseteq evpc_route_tables'
         /\ Len(evpc_subnets) <= Len(evpc_subnets')
         /\ \A i \in 1..Len(evpc_subnets) : evpc_subnets'[i] = evpc_subnets[i]
         /\ evpc_associations \subseteq evpc_associations'
         /\ evpc_endpoints \subseteq evpc_endpoints'
         /\ evpc_security_groups \subseteq evpc_security_groups'
         /\ evpc_ingress \subseteq evpc_ingress'
         /\ \A n \in DOMAIN evpc_instances : \A role \in RoleNames :
              evpc_instances[n][role] <= evpc_instances'[n][role] ]_vars
  /\ [][ (pc' = "failed" /\ (pc # "failed" \/ runs' # runs)) =>
           UNCHANGED cloud ]_vars
  /\ [](pc = "failed" =>
          /\ created.subnet <= Len(evpc_subnets)
          /\ created.security_group <= Cardinality(evpc_security_groups)
          /\ SumSeq([i \in 1..Len(launches) |-> launched(launches[i].count)])
               <= instance_count)

C17_Witness ==
  /\ pc = "failed"
  /\ error = "ProviderError"
  /\ created.route_table > 0
  /\ created.subnet > 0
  /\ created.security_group > 0
  /\ Len(launches) > 0
  /\ instance_count > 0


\* the instances of one role in the subnets the role is declared over
OwnCount(role_data) ==
  SumSeq([i \in 1..Len(role_data.subnets) |->
            evpc_instances[role_data.subnets[i]][role_data.name]])

\* C18: the existing count that instance_role scales a role by is the count
\* of the role's own instances: a role is passed over as complete only when
\* its own instances reach its desired count, and otherwise the number it
\* sets out to launch is its desired count less its own instances.
C18_ExistingCountIsOwn ==
  [][ (/\ AtRole
       /\ Len(config.instance_roles[idx].subnets) > 0
       /\ pc' = "instance_roles")
      => LET role_data == config.instance_roles[idx]
             own == OwnCount(role_data)
         IN  IF own >= desired_count(role_data)
             THEN idx' = idx + 1 /\ ~role_state'.active
             ELSE /\ role_state'.active
                  /\ role_state'.needed_count = desired_count(role_data) - own ]_vars


\* the place of a subnet in the declared list of a role
DeclaredAt(role_data, name) ==
  CHOOSE i \in 1..Len(role_data.subnets) : role_data.subnets[i] = name

\* C19: when instance_role sets out to launch for a role, the order in which
\* it takes the role's subnets is the declared list put in ascending order of
\* the subnets' current instance counts, subnets of equal count keeping their
\* declared order; the launch into the k-th subnet of that order is for the
\* per-subnet share less the subnet's count, plus one exactly when k is at
\* most the remainder of the needed count by the number of subnets.
C19_OrderAndRemainder ==
  /\ [][ (AtRole /\ role_state'.active) =>
           LET role_data == config.instance_roles[idx]
               ordered == role_state'.subnets
           IN  /\ Len(ordered) = Len(role_data.subnets)
               /\ Range(ordered) = Range(role_data.subnets)
               /\ \A a, b \in 1..Len(ordered) :
                    a < b =>
                      \/ collection_len(ordered[a]) < collection_len(ordered[b])
                      \/ /\ collection_len(ordered[a]) = collection_len(ordered[b])
                         /\ DeclaredAt(role_data, ordered[a])
                              < DeclaredAt(role_data, ordered[b]) ]_vars
  /\ [][ (role_state.active /\ Len(launches') = Len(launches) + 1) =>
           LET k == role_state.k
               n == Len(role_state.subnets)
               launch == launches'[Len(launches')]
           IN  /\ launch.role = role_state.name
               /\ launch.subnet = role_state.subnets[k]
               /\ launch.count =
                    (role_state.needed_count \div n)
                      - collection_len(role_state.subnets[k])
                      + (IF k <= role_state.needed_count % n THEN 1 ELSE 0)
               /\ role_state'.k = k + 1 ]_vars

C19_Witness ==
  /\ role_state.active
  /\ config.instance_roles[idx].subnets = <<2, 1>>
  /\ role_state.subnets = <<2, 1>>
  /\ role_state.needed_count % 2 = 1
  /\ role_state.k = 2
  /\ Len(launches) = 1
  /\ launches[1].subnet = 2
  /\ launches[1].count > 0
  /\ collection_len(1) = collection_len(2) - launches[1].count
  /\ launches[1].count = role_state.needed_per_subnet - collection_len(1) + 1


\* the declaration of the subnet created under a name
DeclaredSubnet(name) ==
  CHOOSE sn \in Range(config.subnets) : sn.name = name

\* C20: a subnet declared without an availability_zone under a name ending
\* in -N is created in the N-th zone of the region, counting from 1, and in
\* no zone when the region has no N-th zone; one declared with an
\* availability_zone is created in that zone.
C20_ZoneIsNth ==
  \A i \in 1..Len(evpc_subnets) :
    LET subnet == evpc_subnets[i]
        sn == DeclaredSubnet(subnet.name)
    IN  IF sn.availability_zone # <<>>
        THEN subnet.az = sn.availability_zone[1]
        ELSE /\ subnet.name \in 1..NumZones
             /\ subnet.az = azones[subnet.name]

====
